---- MODULE Spec2Model ----
(***************************************************************************)
(* Isolated pad footing bearing pressure calculator (src/src/App.tsx).     *)
(*                                                                         *)
(* The React component App is modelled as a state machine over its useState*)
(* cells.  Text (input strings, labels, the CSV document) is a sequence of *)
(* one-character strings, so that parsing, formatting, joining and         *)
(* splitting are computed character by character.                          *)
(*                                                                         *)
(* A JavaScript number is an IEEE-754 double, a record                     *)
(*     [c |-> "finite", s |-> sign, m |-> significand, e |-> exponent]     *)
(* of value s * m * 2^e, where s is 1 or -1 and m is an odd natural number *)
(* below 2^53 (or 0, with e = 0: the two zeros differ in s), or one of     *)
(* [c |-> "infinite", s |-> sign, ...] and [c |-> "nan", ...].  Every      *)
(* arithmetic operation returns the double nearest to the exact result,    *)
(* ties to the even significand.  Natural numbers of any size (the         *)
(* significands and the exact intermediate results) are sequences of       *)
(* 15-bit limbs, least significant first: <<3>> is 3, <<0, 1>> is 32768.   *)
(***************************************************************************)
EXTENDS Integers, Sequences, FiniteSets, TLC

VARIABLES P, M, B, D, e,        \* the five input strings            (l.20-24)
          qmax,                 \* number | null                      (l.25)
          error,                \* string                             (l.26)
          savedResults,         \* CalculationResult[]                (l.27)
          calculationCase,      \* string                             (l.28)
          effectPending,        \* the useEffect of l.56-58 is scheduled
          locale,               \* the host's default locale (toLocaleString)
          download,             \* the last file handed to the browser: <<>> or <<content>>
          edits,                \* number of onChange events so far
          saves                 \* number of clicks on Save Result so far

vars == <<P, M, B, D, e, qmax, error, savedResults, calculationCase,
          effectPending, locale, download, edits, saves>>

-----------------------------------------------------------------------------
(* Bounds of the model *)

MaxEdits == 1

MaxSaved == 2

-----------------------------------------------------------------------------
(* Natural numbers of any size *)

LimbBits == 15

Base == 2^LimbBits

Abs(i) == IF i < 0 THEN -i ELSE i

Min(i, j) == IF i < j THEN i ELSE j

Max(i, j) == IF i > j THEN i ELSE j

\* the limbs of a natural number that fits a machine integer
RECURSIVE Big(_)
Big(i) == IF i = 0 THEN <<>> ELSE <<i % Base>> \o Big(i \div Base)

Limb(a, i) == IF 0 < i /\ i <= Len(a) THEN a[i] ELSE 0

\* the position of the highest limb that is not zero, 0 if there is none
TopLimb(a) ==
    IF a # <<>> /\ a[Len(a)] # 0 THEN Len(a)
    ELSE IF \A i \in 1..Len(a) : a[i] = 0 THEN 0
    ELSE Len(a) - (CHOOSE d \in 0..(Len(a) - 1) :
                      /\ a[Len(a) - d] # 0
                      /\ \A c \in 0..(d - 1) : a[Len(a) - c] = 0)

CutAt(a, n) == IF n = Len(a) THEN a ELSE SubSeq(a, 1, n)

\* without the zero limbs at the top
Trim(a) == CutAt(a, TopLimb(a))

\* the position of the highest limb in which a and b of one length differ
TopDifference(a, b) ==
    Len(a) - (CHOOSE d \in 0..(Len(a) - 1) :
                 /\ a[Len(a) - d] # b[Len(a) - d]
                 /\ \A c \in 0..(d - 1) : a[Len(a) - c] = b[Len(a) - c])

CmpAt(a, b, i) == IF a[i] < b[i] THEN -1 ELSE 1

\* -1, 0 or 1 as a < b, a = b or a > b
BigCmp(a, b) ==
    IF Len(a) < Len(b) THEN -1
    ELSE IF Len(a) > Len(b) THEN 1
    ELSE IF a = b THEN 0
    ELSE CmpAt(a, b, TopDifference(a, b))

\* the carry into limb i of a + b: limb i-1 overflows, or it is full and a
\* lower limb overflows into a run of full limbs
AddCarry(a, b, i) ==
    /\ i > 1
    /\ \/ Limb(a, i - 1) + Limb(b, i - 1) >= Base
       \/ /\ Limb(a, i - 1) + Limb(b, i - 1) = Base - 1
          /\ \E j \in 1..(i - 2) :
                /\ Limb(a, j) + Limb(b, j) >= Base
                /\ \A k \in (j + 1)..(i - 2) :
                      Limb(a, k) + Limb(b, k) = Base - 1

BigAdd(a, b) ==
    Trim([i \in 1..(Max(Len(a), Len(b)) + 1) |->
             (Limb(a, i) + Limb(b, i) + (IF AddCarry(a, b, i) THEN 1 ELSE 0))
                 % Base] \o <<>>)

\* the borrow from limb i of a - b
SubBorrow(a, b, i) ==
    /\ i > 1
    /\ \/ a[i - 1] < Limb(b, i - 1)
       \/ /\ a[i - 1] = Limb(b, i - 1)
          /\ \E j \in 1..(i - 2) :
                /\ a[j] < Limb(b, j)
                /\ \A k \in (j + 1)..(i - 2) : a[k] = Limb(b, k)

\* a - b for a >= b
BigSub(a, b) ==
    Trim([i \in 1..Len(a) |->
             (a[i] - Limb(b, i) - (IF SubBorrow(a, b, i) THEN 1 ELSE 0))
                 % Base] \o <<>>)

\* a * k for 0 <= k <= Base: the low halves of the limb products and, one
\* limb higher, the high halves
BigMulSmall(a, k) ==
    BigAdd([i \in 1..Len(a) |-> (a[i] * k) % Base] \o <<>>,
           <<0>> \o [i \in 1..Len(a) |-> (a[i] * k) \div Base])

\* a * Base^n
ShiftLimbs(a, n) == IF a = <<>> THEN <<>> ELSE [i \in 1..n |-> 0] \o a

\* a times the limbs i to j of b
RECURSIVE MulRange(_, _, _, _)
MulRange(a, b, i, j) ==
    IF i = j THEN BigMulSmall(a, b[i])
    ELSE BigAdd(MulRange(a, b, i, (i + j) \div 2),
                ShiftLimbs(MulRange(a, b, (i + j) \div 2 + 1, j),
                           (i + j) \div 2 + 1 - i))

BigMul(a, b) ==
    IF a = <<>> \/ b = <<>> THEN <<>>
    ELSE IF b = <<1>> THEN a
    ELSE IF a = <<1>> THEN b
    ELSE MulRange(a, b, 1, Len(b))

\* a * 2^k for 0 <= k < LimbBits: a limb takes the low bits of its own
\* product and the high bits of the product below
ShlBits(a, k) ==
    Trim([i \in 1..(Len(a) + 1) |->
             ((Limb(a, i) * 2^k) % Base)
                 + (Limb(a, i - 1) \div 2^(LimbBits - k))] \o <<>>)

\* a * 2^k
Shl(a, k) == ShiftLimbs(ShlBits(a, k % LimbBits), k \div LimbBits)

\* a * 2^k for k > 0, a itself otherwise
ShiftBy(a, k) == IF k <= 0 THEN a ELSE Shl(a, k)

\* the limbs of a from the (n+1)-th on, divided by 2^k for k < LimbBits
ShrLimbs(a, n, k) ==
    Trim([i \in 1..(Len(a) - n) |->
             (a[i + n] \div 2^k)
                 + (Limb(a, i + n + 1) % 2^k) * 2^(LimbBits - k)] \o <<>>)

\* a \div 2^k
Shr(a, k) ==
    IF k \div LimbBits >= Len(a) THEN <<>>
    ELSE ShrLimbs(a, k \div LimbBits, k % LimbBits)

\* a % 2^k
LowBits(a, k) ==
    Trim([i \in 1..Min(Len(a), k \div LimbBits + 1) |->
             IF i <= k \div LimbBits THEN a[i]
             ELSE a[i] % 2^(k % LimbBits)] \o <<>>)

RECURSIVE DivSmallFrom(_, _, _, _)
DivSmallFrom(a, k, i, r) ==
    IF i = 0 THEN <<>>
    ELSE DivSmallFrom(a, k, i - 1, (r * Base + a[i]) % k)
           \o <<(r * Base + a[i]) \div k>>

\* a \div k for 0 < k <= Base
BigDivSmall(a, k) == Trim(DivSmallFrom(a, k, Len(a), 0))

RECURSIVE ModSmallFrom(_, _, _, _)
ModSmallFrom(a, k, i, r) ==
    IF i = 0 THEN r ELSE ModSmallFrom(a, k, i - 1, (r * Base + a[i]) % k)

\* a % k for 0 < k <= Base
BigModSmall(a, k) == ModSmallFrom(a, k, Len(a), 0)

RECURSIVE SmallBitLen(_)
SmallBitLen(i) == IF i = 0 THEN 0 ELSE 1 + SmallBitLen(i \div 2)

\* the number of bits of a: 2^(BitLen(a) - 1) <= a < 2^BitLen(a)
BitLen(a) ==
    IF a = <<>> THEN 0 ELSE LimbBits * (Len(a) - 1) + SmallBitLen(a[Len(a)])

IsOdd(a) == a # <<>> /\ a[1] % 2 = 1

\* a is 2^(BitLen(a) - 1)
IsPow2(a) ==
    /\ a # <<>>
    /\ \A i \in 1..(Len(a) - 1) : a[i] = 0
    /\ a[Len(a)] = 2^(SmallBitLen(a[Len(a)]) - 1)

\* the number of zero bits at the low end of a > 0
RECURSIVE TrailingZeroBits(_)
TrailingZeroBits(a) ==
    IF a[1] = 0 THEN LimbBits + TrailingZeroBits(Tail(a))
    ELSE IF a[1] % 2 = 0 THEN 1 + TrailingZeroBits(<<a[1] \div 2>>)
    ELSE 0

\* the largest d with d * b <= r and the product p = d * b, searched
\* downwards from an estimate
RECURSIVE QuotFix(_, _, _, _)
QuotFix(r, b, d, p) ==
    IF BigCmp(p, r) > 0 THEN QuotFix(r, b, d - 1, BigSub(p, b))
    ELSE [d |-> d, p |-> p]

QuotEstimate(r, b, d) == QuotFix(r, b, d, BigMulSmall(b, d))

\* r \div b for r < b * Base and b with the top bit of its top limb set: the
\* quotient of the leading limbs is at most 2 too large
QuotDigit(r, b) ==
    IF Len(r) < Len(b) THEN [d |-> 0, p |-> <<>>]
    ELSE QuotEstimate(r, b, Min(Base - 1,
                                (Limb(r, Len(b) + 1) * Base + r[Len(b)])
                                    \div b[Len(b)]))

DivSubtract(cur, q, qd) ==
    [q |-> Trim(<<qd.d>> \o q), r |-> BigSub(cur, qd.p)]

DivStep(cur, b, h) == DivSubtract(cur, h.q, QuotDigit(cur, b))

DivNext(limb, b, h) == DivStep(Trim(<<limb>> \o h.r), b, h)

\* long division of the limbs i, i+1, ... of a by b, from the top limb down;
\* fewer limbs than b has are a remainder
RECURSIVE DivFrom(_, _, _)
DivFrom(a, b, i) ==
    IF Len(a) - i + 1 < Len(b)
    THEN [q |-> <<>>, r |-> Trim(SubSeq(a, i, Len(a)))]
    ELSE DivNext(a[i], b, DivFrom(a, b, i + 1))

\* the shift that sets the top bit of the top limb of b
NormShift(b) == LimbBits - SmallBitLen(b[Len(b)])

DivModShifted(d, sh) == [q |-> d.q, r |-> Shr(d.r, sh)]

DivModNormal(a, b, sh) ==
    DivModShifted(DivFrom(ShlBits(a, sh), ShlBits(b, sh), 1), sh)

\* quotient and remainder of a by b > 0: by a power of two they are the high
\* and the low bits, by one limb a short division
BigDivMod(a, b) ==
    IF IsPow2(b)
    THEN [q |-> Shr(a, BitLen(b) - 1), r |-> LowBits(a, BitLen(b) - 1)]
    ELSE IF Len(b) = 1
    THEN [q |-> BigDivSmall(a, b[1]), r |-> Big(BigModSmall(a, b[1]))]
    ELSE DivModNormal(a, b, NormShift(b))

Square(a) == BigMul(a, a)

\* 10^k
RECURSIVE BigPow10(_)
BigPow10(k) ==
    IF k = 0 THEN <<1>>
    ELSE IF k % 2 = 1 THEN BigMulSmall(BigPow10(k - 1), 10)
    ELSE Square(BigPow10(k \div 2))

\* a * 10^k for k > 0, a itself otherwise
ScaleBy10(a, k) == IF k <= 0 THEN a ELSE BigMul(a, BigPow10(k))

-----------------------------------------------------------------------------
(* JavaScript numbers *)

Null == [null |-> TRUE]

NaN == [c |-> "nan", s |-> 1, m |-> <<>>, e |-> 0]

Inf(s) == [c |-> "infinite", s |-> s, m |-> <<>>, e |-> 0]

Infinity == Inf(1)

Zero(s) == [c |-> "finite", s |-> s, m |-> <<>>, e |-> 0]

\* the bits of a significand, the least exponent (of the subnormal numbers)
\* and the bound 2^1024 of the finite numbers
SignificandBits == 53

MinExponent == -1074

MaxBits == 1024

isNaN(x) == x.c = "nan"

IsFinite(x) == x.c = "finite"

IsZero(x) == x.c = "finite" /\ x.m = <<>>

OddForm(s, m, k, z) == [c |-> "finite", s |-> s, m |-> Shr(m, z), e |-> k + z]

\* the double s * m * 2^k for 0 < m < 2^53 within the range, in the form
\* with an odd significand
Finite(s, m, k) == OddForm(s, m, k, TrailingZeroBits(m))

\* the integer i as a number
Num(i) ==
    IF i = 0 THEN Zero(1) ELSE Finite(IF i < 0 THEN -1 ELSE 1, Big(Abs(i)), 0)

Neg(x) == [x EXCEPT !.s = -x.s]

\* s * q * 2^k for a quotient q of at most 53 bits (k >= MinExponent), one
\* more after rounding up: beyond the largest double it is an infinity
Rounded(s, q, k) ==
    IF q = <<>> THEN Zero(s)
    ELSE IF BitLen(q) + k > MaxBits THEN Inf(s)
    ELSE Finite(s, q, k)

\* cmp is -1, 0 or 1 as the remainder is below, at or above the half
RoundsUp(cmp, q) == cmp > 0 \/ (cmp = 0 /\ IsOdd(q))

\* round to nearest, a tie to the even quotient: dm is the quotient and the
\* remainder of the division by den
RoundNearest(s, dm, den, k) ==
    Rounded(s,
            IF dm.r # <<>> /\ RoundsUp(BigCmp(BigAdd(dm.r, dm.r), den), dm.q)
            THEN BigAdd(dm.q, <<1>>)
            ELSE dm.q,
            k)

RoundDivided(s, num, den, k) == RoundNearest(s, BigDivMod(num, den), den, k)

\* num / (den * 2^sh) as a multiple of 2^(sh + k)
RoundShifted(s, num, den, k, sh) ==
    RoundDivided(s, ShiftBy(num, -sh), ShiftBy(den, sh), sh + k)

\* the exponent l with 2^l <= num / den < 2^(l+1), one of two by the bits
Exp2From(num, den, l) ==
    IF BigCmp(ShiftBy(num, -l), ShiftBy(den, l)) >= 0 THEN l ELSE l - 1

Exp2(num, den) == Exp2From(num, den, BitLen(num) - BitLen(den))

\* the double nearest to s * (num / den) * 2^k, for num > 0 and den > 0: the
\* quotient is taken to 53 bits, or to fewer at the least exponent
RoundQuotient(s, num, den, k) ==
    RoundShifted(s, num, den, k,
                 Max(Exp2(num, den) - (SignificandBits - 1), MinExponent - k))

\* the significands of finite x and y as multiples of 2^k, k the lesser
\* exponent of the two
AlignedAt(x, y, k) == [a |-> Shl(x.m, x.e - k), b |-> Shl(y.m, y.e - k), k |-> k]

Aligned(x, y) ==
    IF x.m = <<>> THEN [a |-> <<>>, b |-> y.m, k |-> y.e]
    ELSE IF y.m = <<>> THEN [a |-> x.m, b |-> <<>>, k |-> x.e]
    ELSE AlignedAt(x, y, Min(x.e, y.e))

\* -1, 0 or 1 as |x| < |y|, |x| = |y| or |x| > |y|, for finite x and y
CmpAligned(t) == BigCmp(t.a, t.b)

CmpMagnitude(x, y) ==
    IF BitLen(x.m) + x.e < BitLen(y.m) + y.e /\ x.m # <<>> /\ y.m # <<>> THEN -1
    ELSE IF BitLen(x.m) + x.e > BitLen(y.m) + y.e /\ x.m # <<>> /\ y.m # <<>> THEN 1
    ELSE CmpAligned(Aligned(x, y))

\* the difference of the magnitudes a and b with the sign s of a: cmp is
\* BigCmp(a, b), and equal magnitudes leave +0
SignedDifference(s, a, b, cmp) ==
    IF cmp = 0 THEN [s |-> 1, n |-> <<>>]
    ELSE [s |-> s * cmp,
          n |-> BigSub(IF cmp > 0 THEN a ELSE b, IF cmp > 0 THEN b ELSE a)]

\* the exact sum of finite x and y, s * n * 2^t.k
ExactSum(x, y, t) ==
    IF x.s = y.s THEN [s |-> x.s, n |-> BigAdd(t.a, t.b)]
    ELSE SignedDifference(x.s, t.a, t.b, BigCmp(t.a, t.b))

RoundExact(sum, k) ==
    IF sum.n = <<>> THEN Zero(sum.s) ELSE RoundQuotient(sum.s, sum.n, <<1>>, k)

AddFinite(x, y, t) == RoundExact(ExactSum(x, y, t), t.k)

\* x + y
Add(x, y) ==
    IF isNaN(x) \/ isNaN(y) THEN NaN
    ELSE IF ~IsFinite(x) /\ ~IsFinite(y) THEN (IF x.s = y.s THEN x ELSE NaN)
    ELSE IF ~IsFinite(x) THEN x
    ELSE IF ~IsFinite(y) THEN y
    ELSE AddFinite(x, y, Aligned(x, y))

\* x - y
Sub(x, y) == Add(x, Neg(y))

\* x * y
Mul(x, y) ==
    IF isNaN(x) \/ isNaN(y) THEN NaN
    ELSE IF IsZero(x) \/ IsZero(y)
         THEN (IF IsFinite(x) /\ IsFinite(y) THEN Zero(x.s * y.s) ELSE NaN)
    ELSE IF ~IsFinite(x) \/ ~IsFinite(y) THEN Inf(x.s * y.s)
    ELSE RoundQuotient(x.s * y.s, BigMul(x.m, y.m), <<1>>, x.e + y.e)

\* x / y
Div(x, y) ==
    IF isNaN(x) \/ isNaN(y) THEN NaN
    ELSE IF ~IsFinite(x) THEN (IF IsFinite(y) THEN Inf(x.s * y.s) ELSE NaN)
    ELSE IF ~IsFinite(y) THEN Zero(x.s * y.s)
    ELSE IF IsZero(y) THEN (IF IsZero(x) THEN NaN ELSE Inf(x.s * y.s))
    ELSE IF IsZero(x) THEN Zero(x.s * y.s)
    ELSE RoundQuotient(x.s * y.s, x.m, y.m, x.e - y.e)

\* x < y
Less(x, y) ==
    IF isNaN(x) \/ isNaN(y) THEN FALSE
    ELSE IF IsZero(x) /\ IsZero(y) THEN FALSE
    ELSE IF x.s # y.s THEN x.s < y.s
    ELSE IF ~IsFinite(x) \/ ~IsFinite(y)
         THEN (IF x.s > 0 THEN IsFinite(x) /\ ~IsFinite(y)
               ELSE ~IsFinite(x) /\ IsFinite(y))
    ELSE x.s * CmpMagnitude(x, y) < 0

\* x === y
StrictEq(x, y) ==
    ~isNaN(x) /\ ~isNaN(y) /\ (x = y \/ (IsZero(x) /\ IsZero(y)))

\* x <= y
Leq(x, y) == Less(x, y) \/ StrictEq(x, y)

\* x || y on numbers: 0, -0 and NaN are falsy
OrElse(x, y) == IF isNaN(x) \/ IsZero(x) THEN y ELSE x

-----------------------------------------------------------------------------
(* Text: a string is a sequence of one-character strings; a character     *)
(* outside ASCII is written by its code point, "U+00A0"                   *)

DigitChars == <<"0", "1", "2", "3", "4", "5", "6", "7", "8", "9">>

IsDigit(c) == \E i \in 1..10 : DigitChars[i] = c

DigitVal(c) == (CHOOSE i \in 1..10 : DigitChars[i] = c) - 1

\* the number of leading decimal digits of s
RECURSIVE DigitPrefixLen(_)
DigitPrefixLen(s) ==
    IF s # <<>> /\ IsDigit(s[1]) THEN 1 + DigitPrefixLen(Tail(s)) ELSE 0

\* the integer a sequence of decimal digits denotes (0 for the empty one)
RECURSIVE DigitsValue(_)
DigitsValue(s) ==
    IF s = <<>> THEN 0
    ELSE 10 * DigitsValue(SubSeq(s, 1, Len(s) - 1)) + DigitVal(s[Len(s)])

\* the natural number h * 10^4 + d
DigitsStep(h, d) ==
    IF h = <<>> THEN Big(d) ELSE BigAdd(BigMulSmall(h, 10^4), Big(d))

\* the natural number a sequence of decimal digits denotes, four at a time
RECURSIVE DigitsBig(_)
DigitsBig(s) ==
    IF Len(s) <= 4 THEN Big(DigitsValue(s))
    ELSE DigitsStep(DigitsBig(SubSeq(s, 1, Len(s) - 4)),
                    DigitsValue(SubSeq(s, Len(s) - 3, Len(s))))

\* the decimal digits of a natural number
RECURSIVE NatToChars(_)
NatToChars(i) ==
    IF i < 10 THEN <<DigitChars[i + 1]>>
    ELSE NatToChars(i \div 10) \o <<DigitChars[(i % 10) + 1]>>

\* k copies of "0"
Zeros(k) == [i \in 1..k |-> "0"]

\* the digits ds of a number below 10^4, as four digits
FourDigits(ds) == Zeros(4 - Len(ds)) \o ds

\* the decimal digits of a natural number of any size, four at a time
RECURSIVE BigToChars(_)
BigToChars(a) ==
    IF Len(a) <= 1 THEN NatToChars(Limb(a, 1))
    ELSE BigToChars(BigDivSmall(a, 10^4))
           \o FourDigits(NatToChars(BigModSmall(a, 10^4)))

RECURSIVE StripLeadingZeros(_)
StripLeadingZeros(s) ==
    IF s # <<>> /\ s[1] = "0" THEN StripLeadingZeros(Tail(s)) ELSE s

RECURSIVE StripTrailingZeros(_)
StripTrailingZeros(s) ==
    IF s # <<>> /\ s[Len(s)] = "0"
    THEN StripTrailingZeros(SubSeq(s, 1, Len(s) - 1))
    ELSE s

\* the white space and line terminator characters (StrWhiteSpaceChar)
WhiteSpaceChars ==
    {" ", "\t", "\n", "\r", "\f", "U+000B", "U+00A0", "U+FEFF", "U+1680",
     "U+2000", "U+2001", "U+2002", "U+2003", "U+2004", "U+2005", "U+2006",
     "U+2007", "U+2008", "U+2009", "U+200A", "U+2028", "U+2029", "U+202F",
     "U+205F", "U+3000"}

RECURSIVE SkipSpaces(_)
SkipSpaces(s) ==
    IF s # <<>> /\ s[1] \in WhiteSpaceChars THEN SkipSpaces(Tail(s)) ELSE s

StartsWith(s, p) == Len(s) >= Len(p) /\ SubSeq(s, 1, Len(p)) = p

From(s, i) == SubSeq(s, i, Len(s))

InfinityText == <<"I", "n", "f", "i", "n", "i", "t", "y">>

NaNText == <<"N", "a", "N">>

\* the double nearest to s * c * 10^j, for a natural number c > 0
DecimalValue(s, c, j) ==
    RoundQuotient(s, ScaleBy10(c, j), ScaleBy10(<<1>>, -j), 0)

\* the value of a decimal literal with the digits ds (no leading zeros) and
\* the exponent k: the double nearest to it.  A literal of 10^309 or more is
\* above every double and one below 10^-324 is less than half the least
\* double, which saves the computation for them
LiteralValue(sgn, ds, k) ==
    IF ds = <<>> THEN Zero(sgn)
    ELSE IF Len(ds) - 1 + k >= 309 THEN Inf(sgn)
    ELSE IF Len(ds) - 1 + k <= -325 THEN Zero(sgn)
    ELSE DecimalValue(sgn, DigitsBig(ds), k)

LeadingDigits(s) == SubSeq(s, 1, DigitPrefixLen(s))

\* the value of the digits of an exponent; beyond six digits every literal
\* is an infinity or a zero whatever the exponent's value
ExponentValue(ds) ==
    IF Len(StripLeadingZeros(ds)) > 6 THEN 10^6
    ELSE DigitsValue(StripLeadingZeros(ds))

\* the exponent part at the head of rest: e or E, a sign, digits
ExponentPart(rest) ==
    IF rest # <<>> /\ rest[1] \in {"e", "E"} /\ Len(rest) > 1
    THEN (IF rest[2] = "-" THEN -1 ELSE 1)
           * ExponentValue(LeadingDigits(IF rest[2] \in {"-", "+"}
                                         THEN From(rest, 3)
                                         ELSE Tail(rest)))
    ELSE 0

ParseExponent(sgn, intDigits, fracDigits, rest) ==
    IF Len(intDigits) + Len(fracDigits) = 0 THEN NaN
    ELSE LiteralValue(sgn, StripLeadingZeros(intDigits \o fracDigits),
                      ExponentPart(rest) - Len(fracDigits))

HasFraction(rest) == rest # <<>> /\ rest[1] = "."

ParseFraction(sgn, intDigits, rest) ==
    ParseExponent(sgn, intDigits,
                  IF HasFraction(rest) THEN LeadingDigits(Tail(rest)) ELSE <<>>,
                  IF HasFraction(rest)
                  THEN From(rest, DigitPrefixLen(Tail(rest)) + 2)
                  ELSE rest)

ParseUnsigned(sgn, u) ==
    IF StartsWith(u, InfinityText) THEN Inf(sgn)
    ELSE ParseFraction(sgn, LeadingDigits(u), From(u, DigitPrefixLen(u) + 1))

ParseSigned(t) ==
    ParseUnsigned(IF t # <<>> /\ t[1] = "-" THEN -1 ELSE 1,
                  IF t # <<>> /\ t[1] \in {"-", "+"} THEN Tail(t) ELSE t)

\* parseFloat(string): the longest prefix that is a decimal literal, after
\* leading white space; NaN when there is none
parseFloat(s) == ParseSigned(SkipSpaces(s))

\* a finite x # 0 is Numerator(x) / Denominator(x) in absolute value
Numerator(x) == ShiftBy(x.m, x.e)

Denominator(x) == ShiftBy(<<1>>, -x.e)

\* num / den >= 10^k
AtLeastPow10(num, den, k) ==
    BigCmp(ScaleBy10(num, -k), ScaleBy10(den, k)) >= 0

RECURSIVE Exp10Search(_, _, _)
Exp10Search(num, den, k) ==
    IF ~AtLeastPow10(num, den, k) THEN Exp10Search(num, den, k - 1)
    ELSE IF AtLeastPow10(num, den, k + 1) THEN Exp10Search(num, den, k + 1)
    ELSE k

\* the decimal exponent of a finite x # 0: 10^Exp10(x) <= |x| < 10^(Exp10(x)+1),
\* searched from an estimate by the number of bits
Exp10(x) ==
    Exp10Search(Numerator(x), Denominator(x),
                ((BitLen(x.m) + x.e - 1) * 30103) \div 100000)

SignText(x) == IF x.s < 0 /\ ~IsZero(x) THEN <<"-">> ELSE <<>>

Magnitude(x) == [x EXCEPT !.s = 1]

DivideBy(num, den) == [dm |-> BigDivMod(num, den), den |-> den]

\* quotient and remainder of |x| * 10^j by 1, as a division of natural
\* numbers: dm the quotient and remainder, den the divisor
DecimalShift(x, j) ==
    DivideBy(ScaleBy10(Numerator(x), j), ScaleBy10(Denominator(x), -j))

\* -1, 0 or 1 as the remainder of f is below, at or above the half
HalfCmp(f) == BigCmp(BigAdd(f.dm.r, f.dm.r), f.den)

\* the integer nearest to the quotient f, the larger one of two
RoundHalfUp(f) ==
    IF HalfCmp(f) >= 0 THEN BigAdd(f.dm.q, <<1>>) ELSE f.dm.q

\* the p digits m with decimal exponent ex, in fixed or exponential notation
PrecisionText(s, m, ex, p) ==
    IF ex < -6 \/ ex >= p
    THEN s \o <<m[1]>> \o (IF p > 1 THEN <<".">> \o SubSeq(m, 2, p) ELSE <<>>)
           \o <<"e">> \o (IF ex >= 0 THEN <<"+">> ELSE <<"-">>)
           \o NatToChars(Abs(ex))
    ELSE IF ex = p - 1 THEN s \o m
    ELSE IF ex >= 0
         THEN s \o SubSeq(m, 1, ex + 1) \o <<".">> \o SubSeq(m, ex + 2, p)
    ELSE s \o <<"0", ".">> \o Zeros(-(ex + 1)) \o m

\* rounding up to 10^p carries into the exponent
PrecisionCarry(s, m, e0, p) ==
    PrecisionText(s, SubSeq(m, 1, p), IF Len(m) > p THEN e0 + 1 ELSE e0, p)

PrecisionRound(s, x, e0, p) ==
    PrecisionCarry(s, BigToChars(RoundHalfUp(DecimalShift(x, p - 1 - e0))),
                   e0, p)

\* Number.prototype.toPrecision(p): the p significant digits nearest to the
\* value of the double, the larger ones of two; exponential notation when
\* the exponent is below -6 or at least p
toPrecision(x, p) ==
    IF isNaN(x) THEN NaNText
    ELSE IF ~IsFinite(x) THEN SignText(x) \o InfinityText
    ELSE IF IsZero(x) THEN PrecisionText(<<>>, Zeros(p), 0, p)
    ELSE PrecisionRound(SignText(x), x, Exp10(x), p)

\* the digits ds with the decimal point after the n-th: plain up to 21
\* integer digits and down to 10^-6, exponential notation beyond
DecimalLayout(s, ds, n) ==
    IF Len(ds) <= n /\ n <= 21 THEN s \o ds \o Zeros(n - Len(ds))
    ELSE IF 0 < n /\ n <= 21
         THEN s \o SubSeq(ds, 1, n) \o <<".">> \o SubSeq(ds, n + 1, Len(ds))
    ELSE IF -6 < n /\ n <= 0 THEN s \o <<"0", ".">> \o Zeros(-n) \o ds
    ELSE s \o <<ds[1]>>
           \o (IF Len(ds) = 1 THEN <<>> ELSE <<".">> \o SubSeq(ds, 2, Len(ds)))
           \o <<"e">> \o (IF n - 1 >= 0 THEN <<"+">> ELSE <<"-">>)
           \o NatToChars(Abs(n - 1))

\* the digits cs of the decimal c of k digits (k + 1 when c is 10^k),
\* without the zeros at their end
DecimalDigits(s, cs, e0, k) ==
    DecimalLayout(s, StripTrailingZeros(cs), e0 + 1 + Len(cs) - k)

\* of the two decimals next to |x|, c[1] below and c[2] above, the one that
\* reads back as x: the nearer one of two, the even one of two equally
\* near; <<>> if none.  reads tells of each whether it reads back as x
ShortestChoice(c, reads, cmp) ==
    IF reads[1] /\ reads[2]
    THEN (IF cmp < 0 \/ (cmp = 0 /\ ~IsOdd(c[1])) THEN c[1] ELSE c[2])
    ELSE IF reads[1] THEN c[1]
    ELSE IF reads[2] THEN c[2]
    ELSE <<>>

ShortestOf(x, j, c, cmp) ==
    ShortestChoice(c,
                   [i \in 1..2 |-> DecimalValue(1, c[i], j) = Magnitude(x)]
                       \o <<>>,
                   cmp)

ShortestCandidates(x, e0, k, f) ==
    ShortestOf(x, e0 - k + 1, <<f.dm.q, BigAdd(f.dm.q, <<1>>)>>, HalfCmp(f))

RECURSIVE ShortestFrom(_, _, _, _)

ShortestNext(s, x, e0, k, c) ==
    IF c = <<>> THEN ShortestFrom(s, x, e0, k + 1)
    ELSE DecimalDigits(s, BigToChars(c), e0, k)

\* the shortest decimal of at least k digits that reads back as x
ShortestFrom(s, x, e0, k) ==
    ShortestNext(s, x, e0, k,
                 ShortestCandidates(x, e0, k, DecimalShift(x, k - 1 - e0)))

\* Number.prototype.toString(): the fewest digits that read back as the same
\* double
NumberToString(x) ==
    IF isNaN(x) THEN NaNText
    ELSE IF ~IsFinite(x) THEN SignText(x) \o InfinityText
    ELSE IF IsZero(x) THEN <<"0">>
    ELSE ShortestFrom(SignText(x), x, Exp10(x), 1)

\* formatNumber: Number(num.toPrecision(3)).toString()
formatNumber(num) == NumberToString(parseFloat(toPrecision(num, 3)))

\* Array.prototype.join
RECURSIVE Join(_, _)
Join(parts, sep) ==
    IF parts = <<>> THEN <<>>
    ELSE IF Len(parts) = 1 THEN parts[1]
    ELSE parts[1] \o <<sep>> \o Join(Tail(parts), sep)

-----------------------------------------------------------------------------
(* The component's texts *)

ErrorText ==
    <<"P", "l", "e", "a", "s", "e", " ", "e", "n", "t", "e", "r", " ",
      "v", "a", "l", "i", "d", " ", "p", "o", "s", "i", "t", "i", "v", "e", " ",
      "n", "u", "m", "b", "e", "r", "s", " ", "f", "o", "r", " ",
      "a", "l", "l", " ", "f", "i", "e", "l", "d", "s">>

CaseA == <<"C", "a", "s", "e", " ", "A", ":", " ", "e", " ", "<", " ", "e", "k">>

CaseB == <<"C", "a", "s", "e", " ", "B", ":", " ", "e", " ", "=", " ", "e", "k">>

CaseC == <<"C", "a", "s", "e", " ", "C", ":", " ", "e", " ", ">", " ", "e", "k">>

\* the dot operator and the superscript two are written by their code points
headers ==
    << <<"T", "i", "m", "e", "s", "t", "a", "m", "p">>,
       <<"P", " ", "(", "k", "N", ")">>,
       <<"M", " ", "(", "k", "N", "U+22C5", "m", ")">>,
       <<"B", " ", "(", "m", ")">>,
       <<"D", " ", "(", "m", ")">>,
       <<"e", " ", "(", "m", ")">>,
       <<"q", "m", "a", "x", " ", "(", "k", "N", "/", "m", "U+00B2", ")">>,
       <<"C", "a", "s", "e">> >>

-----------------------------------------------------------------------------
(* The environment: the locale and the clock read by new Date() *)

Locales == {"en-US", "sv-SE"}

\* the seconds of the clock readings, all within 31 October 2026, 04:17
ClockReadings == {5}

\* Date.prototype.toLocaleString() in the host's default locale (hosts with
\* a recent ICU put U+202F, not a space, before AM)
toLocaleString(t, loc) ==
    LET ss == IF t < 10 THEN <<"0">> \o NatToChars(t) ELSE NatToChars(t)
    IN  IF loc = "en-US"
        THEN <<"1", "0", "/", "3", "1", "/", "2", "0", "2", "6", ",", " ",
               "4", ":", "1", "7", ":">> \o ss \o <<" ", "A", "M">>
        ELSE <<"2", "0", "2", "6", "-", "1", "0", "-", "3", "1", " ",
               "0", "4", ":", "1", "7", ":">> \o ss

-----------------------------------------------------------------------------
(* The calculation *)

Keys == {"P", "M", "B", "D", "e"}

\* the input string of a field
Current(key) ==
    CASE key = "P" -> P [] key = "M" -> M [] key = "B" -> B
      [] key = "D" -> D [] key = "e" -> e

\* parseFloat of the five inputs (l.81-85, l.113-117)
ParsedInputs == [key \in Keys |-> parseFloat(Current(key))]

validateInputs ==
    \A value \in {P, M, B, D, e} :
        /\ value # <<>>
        /\ LET num == parseFloat(value)
           IN  ~(isNaN(num) \/ Leq(num, Num(0)))

\* the critical eccentricity (l.86)
CriticalEccentricity(pVal, mVal, dVal) ==
    OrElse(Div(mVal, pVal), Mul(Div(Num(1), Num(6)), dVal))

\* a full-contact pressure whose moment term is divided by B*D, not B*D*D
FullContactLinear(pVal, mVal, bVal, dVal) ==
    Add(Div(pVal, Mul(bVal, dVal)),
        Div(Mul(Num(6), mVal), Mul(bVal, dVal)))

\* the full-contact pressure (l.92, l.95)
FullContact(pVal, mVal, bVal, dVal) ==
    Add(Div(pVal, Mul(bVal, dVal)),
        Div(Mul(Num(6), mVal), Mul(Mul(bVal, dVal), dVal)))

\* the partial-contact pressure (l.98)
PartialContact(pVal, bVal, dVal, eVal) ==
    Div(pVal, Mul(Mul(Div(Num(3), Num(2)), bVal),
                  Sub(Div(dVal, Num(2)), eVal)))

\* a branch whose first test is e <= ek, so that a tie is never reported
BranchNoTie(pVal, mVal, bVal, dVal, eVal, ek) ==
    IF Leq(eVal, ek)
    THEN [result |-> FullContact(pVal, mVal, bVal, dVal), caseType |-> CaseA]
    ELSE [result |-> PartialContact(pVal, bVal, dVal, eVal), caseType |-> CaseC]

\* the branch of l.91-100 on the parsed inputs and ek
Branch(pVal, mVal, bVal, dVal, eVal, ek) ==
    IF Less(eVal, ek)
    THEN [result |-> FullContact(pVal, mVal, bVal, dVal), caseType |-> CaseA]
    ELSE IF StrictEq(eVal, ek)
    THEN [result |-> FullContact(pVal, mVal, bVal, dVal), caseType |-> CaseB]
    ELSE [result |-> PartialContact(pVal, bVal, dVal, eVal), caseType |-> CaseC]

\* the result and the case of l.86-100 on the parsed inputs
Pressure(pVal, mVal, bVal, dVal, eVal) ==
    Branch(pVal, mVal, bVal, dVal, eVal,
           CriticalEccentricity(pVal, mVal, dVal))

\* l.102-104
SetResult(r) ==
    /\ qmax' = r.result
    /\ calculationCase' = r.caseType
    /\ error' = <<>>

\* l.81-104 on the parsed inputs v
Calculate(v) == SetResult(Pressure(v.P, v.M, v.B, v.D, v.e))

calculateQmax ==
    IF ~validateInputs
    THEN /\ qmax' = Null
         /\ error' = ErrorText
         /\ UNCHANGED calculationCase
    ELSE Calculate(ParsedInputs)

-----------------------------------------------------------------------------
(* The saved results and their export *)

NewResult(t) ==
    [timestamp |-> toLocaleString(t, locale),
     inputs    |-> ParsedInputs,
     qmax      |-> qmax,
     case      |-> calculationCase]

\* a save that skips a result equal to the last one saved
AppendUnlessLast(newResult) ==
    IF savedResults # <<>> /\ savedResults[Len(savedResults)] = newResult
    THEN UNCHANGED savedResults
    ELSE savedResults' = Append(savedResults, newResult)

saveResultDedup(t) ==
    IF qmax = Null THEN UNCHANGED savedResults
    ELSE AppendUnlessLast(NewResult(t))

saveResult(t) ==
    IF qmax = Null THEN UNCHANGED savedResults
    ELSE savedResults' = Append(savedResults, NewResult(t))

\* one data row of the CSV document (l.132-141)
\* the six numbers of a data row, in the order of the columns
RowNumbers(result) ==
    <<result.inputs.P, result.inputs.M, result.inputs.B, result.inputs.D,
      result.inputs.e, result.qmax>>

FormatAll(nums) == [i \in 1..Len(nums) |-> formatNumber(nums[i])] \o <<>>

csvRow(result) ==
    Join(<<result.timestamp>> \o FormatAll(RowNumbers(result))
           \o <<result.case>>, ",")

\* a document without the header row
csvContentNoHeader(results) ==
    Join([i \in 1..Len(results) |-> csvRow(results[i])], "\n")

csvContent(results) ==
    Join(<<Join(headers, ",")>> \o [i \in 1..Len(results) |-> csvRow(results[i])],
         "\n")

exportToCSV ==
    IF Len(savedResults) = 0 THEN UNCHANGED download
    ELSE download' = <<csvContent(savedResults)>>

-----------------------------------------------------------------------------
(* What is rendered (l.211-241) *)

ResultShown == error = <<>> /\ qmax # Null

SaveButtonShown == ResultShown

\* an export button rendered with the table, outside the result block
ExportButtonOutside == Len(savedResults) > 0

ExportButtonShown == ResultShown /\ Len(savedResults) > 0

-----------------------------------------------------------------------------
(* The state machine *)

\* the strings typed into a field: nothing, and a decimal that is not a double
\* and lies half-way between two numbers of three digits
EditValues == { <<>>, <<"9", ".", "9", "9", "5">> }

Init ==
    /\ P = <<"3">>
    /\ M = <<"1", "0">>
    /\ B = <<"1", ".", "2">>
    /\ D = <<"1", ".", "5">>
    /\ e = <<"0", ".", "1">>
    /\ qmax = Null
    /\ error = <<>>
    /\ savedResults = <<>>
    /\ calculationCase = <<>>
    /\ effectPending = TRUE
    /\ locale \in Locales
    /\ download = <<>>
    /\ edits = 0
    /\ saves = 0

\* the effect of l.56-58, run after a render in which an input changed; the
\* handlers below read whatever state is current, so one that runs before
\* the effect sees the new inputs beside the result of the old ones
RunEffect ==
    /\ effectPending
    /\ calculateQmax
    /\ effectPending' = FALSE
    /\ UNCHANGED <<P, M, B, D, e, savedResults, locale, download, edits, saves>>

\* onChange of the input of `key` (l.191-200): setValue(e.target.value)
OnChange(key, value) ==
    /\ edits < MaxEdits
    /\ value # Current(key)
    /\ P' = IF key = "P" THEN value ELSE P
    /\ M' = IF key = "M" THEN value ELSE M
    /\ B' = IF key = "B" THEN value ELSE B
    /\ D' = IF key = "D" THEN value ELSE D
    /\ e' = IF key = "e" THEN value ELSE e
    /\ effectPending' = TRUE
    /\ edits' = edits + 1
    /\ UNCHANGED <<qmax, error, savedResults, calculationCase, locale, download,
                   saves>>

\* a click on Save Result (l.222-228)
SaveClick ==
    /\ SaveButtonShown
    /\ Len(savedResults) < MaxSaved
    /\ \E t \in ClockReadings : saveResult(t)
    /\ saves' = saves + 1
    /\ UNCHANGED <<P, M, B, D, e, qmax, error, calculationCase, effectPending,
                   locale, download, edits>>

\* a click on Export to CSV (l.230-236)
ExportClick ==
    /\ ExportButtonShown
    /\ exportToCSV
    /\ UNCHANGED <<P, M, B, D, e, qmax, error, savedResults, calculationCase,
                   effectPending, locale, edits, saves>>

Next ==
    \/ RunEffect
    \/ \E key \in Keys, value \in EditValues : OnChange(key, value)
    \/ SaveClick
    \/ ExportClick

Spec == Init /\ [][Next]_vars

-----------------------------------------------------------------------------
(* The calculation alone: any five input strings, then the effect *)

\* the strings tried in each field: an empty, a non-numeric, a zero, a
\* negative and a vanishing one, decimals that are not doubles, a quotient
\* M/P that underflows and a literal beyond the doubles
PValues ==
    { <<>>, <<"0", ".", "1">>, <<"\t", "1">>, <<"1", "e", "2", "0", "0">> }

MValues ==
    { <<"a", "b", "c">>, <<"0", ".", "3">>, <<"1">>,
      <<"1", "e", "-", "2", "0", "0">> }

BValues == { <<"0">>, <<"1">>, <<"1", ".", "2">> }

DValues == { <<"-", "1">>, <<"1">>, <<"1", ".", "5">> }

eValues ==
    { <<"1", "e", "-", "3", "2", "4">>, <<"0", ".", "1">>, <<"1">>, <<"3">>,
      <<"1", "e", "9", "9", "9">> }

InitCalc ==
    /\ P \in PValues
    /\ M \in MValues
    /\ B \in BValues
    /\ D \in DValues
    /\ e \in eValues
    /\ qmax = Null
    /\ error = <<>>
    /\ savedResults = <<>>
    /\ calculationCase = <<>>
    /\ effectPending = TRUE
    /\ locale = "en-US"
    /\ download = <<>>
    /\ edits = 0
    /\ saves = 0

NextCalc == RunEffect

SpecCalc == InitCalc /\ [][NextCalc]_vars

-----------------------------------------------------------------------------
(* Properties *)

\* the least element of a non-empty set of integers
Least(S) == CHOOSE i \in S : \A j \in S : i <= j

\* the pieces of s from position start on, cut at the positions in seps
RECURSIVE Pieces(_, _, _)
Pieces(s, start, seps) ==
    IF seps = {} THEN <<SubSeq(s, start, Len(s))>>
    ELSE <<SubSeq(s, start, Least(seps) - 1)>>
            \o Pieces(s, Least(seps) + 1, seps \ {Least(seps)})

\* String.prototype.split on a one-character separator
Split(s, sep) == Pieces(s, 1, {i \in 1..Len(s) : s[i] = sep})

\* the effect has run on the inputs now in the fields
Settled == ~effectPending

pP == parseFloat(P)

pM == parseFloat(M)

pB == parseFloat(B)

pD == parseFloat(D)

pE == parseFloat(e)

\* all five inputs parse to a number above zero
AllPositive == \A x \in {pP, pM, pB, pD, pE} : Less(Num(0), x)

\* all five inputs parse to a finite number above zero
AllFinitePositive == \A x \in {pP, pM, pB, pD, pE} : IsFinite(x) /\ Less(Num(0), x)

\* P/(B*D) + 6*M/(B*D*D)
FormulaA == Add(Div(pP, Mul(pB, pD)), Div(Mul(Num(6), pM), Mul(Mul(pB, pD), pD)))

\* P / (1.5*B*(D/2 - e))
FormulaC == Div(pP, Mul(Mul(Div(Num(3), Num(2)), pB), Sub(Div(pD, Num(2)), pE)))

\* C1: for inputs that are all above zero with e < M/P, the calculation sets
\* qmax to P/(B*D) + 6*M/(B*D*D) and the case label to 'Case A: e < ek'
\* (the quotient and the formula in double arithmetic, on the parsed inputs).
C1_CaseA ==
    (Settled /\ AllPositive /\ Less(pE, Div(pM, pP)))
        => (qmax = FormulaA /\ calculationCase = CaseA)

C1_Witness ==
    /\ Settled /\ AllPositive /\ Less(pE, Div(pM, pP))
    /\ qmax # Null /\ IsFinite(qmax) /\ calculationCase = CaseA

\* C2: for inputs that are all above zero with e > M/P, the calculation sets
\* qmax to P / (1.5*B*(D/2 - e)) and the case label to 'Case C: e > ek'.
C2_CaseC ==
    (Settled /\ AllPositive /\ Less(Div(pM, pP), pE))
        => (qmax = FormulaC /\ calculationCase = CaseC)

\* C3: for valid inputs with e exactly M/P (equal as doubles, ===) the label
\* is 'Case B: e = ek' and qmax is the Case A formula; every valid input
\* reports one of the three labels.
C3_CaseB ==
    (Settled /\ AllPositive)
        => /\ calculationCase \in {CaseA, CaseB, CaseC}
           /\ StrictEq(pE, Div(pM, pP))
                 => (calculationCase = CaseB /\ qmax = FormulaA)

C3_Witness ==
    /\ Settled /\ AllPositive /\ StrictEq(pE, Div(pM, pP))
    /\ calculationCase = CaseB /\ qmax # Null

\* C4: an input that is empty, non-numeric, zero, negative or not finite
\* leaves no result (qmax null, the error message set); a result is produced
\* only when all five inputs are finite and above zero.
C4_Validation ==
    Settled => IF AllFinitePositive
               THEN qmax # Null /\ error = <<>>
               ELSE qmax = Null /\ error = ErrorText

\* C9: every input that passes validation yields a finite qmax above zero.
C9_PositivePressure ==
    (Settled /\ AllPositive) => (qmax # Null /\ IsFinite(qmax) /\ Less(Num(0), qmax))

\* C5: while qmax is unset nothing is saved and nothing is exported, and a
\* recalculation that fails validation leaves the saved results as they were.
C5_Unavailable ==
    [][(qmax = Null \/ qmax' = Null)
          => (savedResults' = savedResults /\ download' = download)]_vars

C5_Witness ==
    Settled /\ qmax = Null /\ error = ErrorText
            /\ savedResults # <<>> /\ download # <<>>

\* C6: the saved results are append-only: each click on Save Result with
\* qmax set appends one record at the end, nothing else changes the list, so
\* the list holds as many records as there were saves.
C6_AppendOnly ==
    /\ [](Len(savedResults) = saves)
    /\ [][\/ savedResults' = savedResults
          \/ /\ saves' = saves + 1
             /\ qmax # Null
             /\ Len(savedResults') = Len(savedResults) + 1
             /\ SubSeq(savedResults', 1, Len(savedResults)) = savedResults]_vars

C6_Witness ==
    saves = 2 /\ Len(savedResults) = 2 /\ savedResults[1] = savedResults[2]

\* the fields a data row carries for a saved result, but for its timestamp
RowFields(r) ==
    <<formatNumber(r.inputs.P), formatNumber(r.inputs.M),
      formatNumber(r.inputs.B), formatNumber(r.inputs.D),
      formatNumber(r.inputs.e), formatNumber(r.qmax), r.case>>

\* doc is the header line and then, line by line, the results: a line ends
\* with the result's seven fields and begins with its timestamp
DocumentOf(doc, results) ==
    LET lines == Split(doc, "\n")
    IN  /\ Len(lines) = Len(results) + 1
        /\ Split(lines[1], ",") = headers
        /\ \A i \in 1..Len(results) :
              LET f == Split(lines[i + 1], ",")
              IN  /\ Len(f) >= 8
                  /\ SubSeq(f, Len(f) - 6, Len(f)) = RowFields(results[i])
                  /\ Join(SubSeq(f, 1, Len(f) - 7), ",") = results[i].timestamp

\* C7: an export of N >= 1 saved results is a document of N+1 lines, the
\* header and one row per result in the order saved, each row carrying the
\* result's formatted inputs, qmax and case; an empty list exports nothing.
C7_Export ==
    /\ [](Len(savedResults) = 0 => download = <<>>)
    /\ [][download' # download
             => /\ Len(savedResults) >= 1
                /\ DocumentOf(download'[1], savedResults)]_vars

C7_Witness ==
    download # <<>> /\ Len(Split(download[1], "\n")) = 3 /\ Len(savedResults) = 2

\* C8: every saved record's qmax and case are the calculation applied to the
\* record's own inputs.
C8_SelfConsistent ==
    \A i \in 1..Len(savedResults) :
        LET r == savedResults[i]
            c == Pressure(r.inputs.P, r.inputs.M, r.inputs.B, r.inputs.D,
                          r.inputs.e)
        IN  r.qmax = c.result /\ r.case = c.caseType

\* C10: every data row of the exported document splits on commas into as
\* many fields as the header row, eight.
C10_EightFields ==
    download # <<>> =>
        LET lines == Split(download[1], "\n")
        IN  \A i \in 1..Len(lines) : Len(Split(lines[i], ",")) = 8

=============================================================================
